---- MODULE Spec2Model ----
(***************************************************************************)
(* Zero-API: an Express host that scans a directory of route modules,      *)
(* registers each valid one under a fixed prefix, wraps res.json in an      *)
(* envelope, and serves introspection endpoints.                           *)
(*                                                                         *)
(* Two deployment flavours exist in the source:                            *)
(*   "api"     src/unnamed/part_000  (prefix /api, meta/onStart)           *)
(*   "ladybug" src/index.js 1-406    (prefix /ladybug, config/execute)     *)
(*                                                                         *)
(* Strings that the code takes apart (paths, URLs) are sequences of        *)
(* one-character strings; all other strings are TLA+ strings.              *)
(* JavaScript values handed to res.json are tagged records:                *)
(*   [t |-> "string"|"number"|"boolean"|"null", s |-> text]                *)
(*   [t |-> "array",  a |-> sequence of values]                            *)
(*   [t |-> "object", f |-> function from keys to values]                  *)
(* A JavaScript run-to-completion segment is one action.                   *)
(***************************************************************************)
EXTENDS Integers, Sequences, FiniteSets, TLC

VARIABLES
    flavor,       \* which deployment variant runs
    settings,     \* the settings object after the startup load
    dir,          \* the api folder: its .js and other files in scan order
    scanned,      \* how many entries of dir loadModules has visited
    phase,        \* "loading" | "listening"
    stack,        \* the Express router stack, in registration order
    apiModules,   \* the route registry
    totalRoutes,  \* the loaded-route counter
    loadErrors,   \* the LoadError list
    run,          \* number of the current process run; also the clock
    prevRun,      \* what the previous run had loaded when it was stopped
    req           \* the request in flight (req.active = FALSE when none)

vars == <<flavor, settings, dir, scanned, phase, stack, apiModules,
          totalRoutes, loadErrors, run, prevRun, req>>

(***************************************************************************)
(* Bounds of the model.                                                    *)
(***************************************************************************)
MaxFiles == 2      \* files in the api folder (life-cycle specification)
MaxScan == 2       \* files in the api folder (load specification)
MaxRuns == 2       \* process runs (restart specification)

(***************************************************************************)
(* JavaScript values.                                                      *)
(***************************************************************************)
JStr(s) == [t |-> "string", s |-> s]
JNum(n) == [t |-> "number", n |-> n]
\* A number read from the environment (process.uptime()).
JEnv(s) == [t |-> "number", env |-> s]
JBool(s) == [t |-> "boolean", s |-> s]
JNull == [t |-> "null", s |-> "null"]
JUndefined == [t |-> "undefined", s |-> ""]
JArr(a) == [t |-> "array", a |-> a]
JObj(f) == [t |-> "object", f |-> f]
JFile(s) == [t |-> "file", s |-> s]
\* A string the model keeps as a sequence of characters.
JChars(c) == [t |-> "string", c |-> c]
\* A settings key read without a default: undefined when the key is absent.
JOpt(s) == IF s = "" THEN JUndefined ELSE JStr(s)

\* JavaScript truthiness (ToBoolean).
Truthy(v) ==
    CASE v.t = "null" -> FALSE
      [] v.t = "undefined" -> FALSE
      [] v.t = "string" -> v.s # ""
      [] v.t = "number" -> "n" \notin DOMAIN v \/ v.n # 0
      [] v.t = "boolean" -> v.s = "true"
      [] OTHER -> TRUE

\* JavaScript typeof: arrays and null are "object".
TypeOf(v) ==
    CASE v.t \in {"object", "array", "null"} -> "object"
      [] OTHER -> v.t

\* The own enumerable properties an object spread {...v} copies: an object's
\* fields, an array's elements under the keys "0", "1", ...
SpreadFields(v) ==
    IF v.t = "object" THEN v.f
    ELSE IF v.t = "array"
         THEN [k \in {ToString(i - 1) : i \in 1..Len(v.a)} |->
                 v.a[CHOOSE i \in 1..Len(v.a) : ToString(i - 1) = k]]
         ELSE [k \in {} |-> JNull]

\* {...a, ...b}: later keys override earlier ones.
Merge(a, b) ==
    [k \in DOMAIN a \cup DOMAIN b |-> IF k \in DOMAIN b THEN b[k] ELSE a[k]]

\* a || b on strings, "" standing for an absent or empty value.
OrElse(a, b) == IF a # "" THEN a ELSE b

\* new Date().toISOString(): the clock ticks once per process run.
Timestamp == "T" \o ToString(run)

(***************************************************************************)
(* Strings taken apart by the code.                                        *)
(***************************************************************************)
Includes(s, c) == \E i \in 1..Len(s) : s[i] = c

\* Index of the first c in s, or Len(s) + 1.
IndexOf(s, c) ==
    IF Includes(s, c) THEN CHOOSE i \in 1..Len(s) :
                               s[i] = c /\ \A j \in 1..(i - 1) : s[j] # c
    ELSE Len(s) + 1

\* s.split(c): the pieces of s between occurrences of c.
RECURSIVE Split(_, _)
Split(s, c) ==
    IF ~Includes(s, c) THEN <<s>>
    ELSE LET i == IndexOf(s, c)
         IN <<SubSeq(s, 1, i - 1)>> \o Split(SubSeq(s, i + 1, Len(s)), c)

StartsWith(s, p) == Len(s) >= Len(p) /\ SubSeq(s, 1, Len(p)) = p

\* String.prototype.toLowerCase on the method names the model uses.
ToLowerCase(s) ==
    CASE s = "GET" -> "get"
      [] s = "POST" -> "post"
      [] s = "HEAD" -> "head"
      [] s = "OPTIONS" -> "options"
      [] s = "FETCH" -> "fetch"
      [] OTHER -> s

(***************************************************************************)
(* Flavour-dependent literals.                                             *)
(***************************************************************************)
Flavors == {"api", "ladybug"}

Prefix(fl) ==
    IF fl = "api" THEN <<"/", "a", "p", "i">>
    ELSE <<"/", "l", "a", "d", "y", "b", "u", "g">>

DefaultCategory(fl) == IF fl = "api" THEN "Uncategorized" ELSE "General"

\* The settings object: settings.json parsed, or the hardcoded fallback.
\* "" stands for a key the object lacks.
\* hasHeader tells whether the object has a header object (with its status).
FallbackSettings(fl) ==
    IF fl = "api"
    THEN [source |-> "fallback", name |-> "", operator |-> "Ladybug APIs", version |-> "",
          hasHeader |-> FALSE]
    ELSE [source |-> "fallback", name |-> "LADYBUG BOT API", operator |-> "AjiroDesu",
          version |-> "Ladybug bot", hasHeader |-> FALSE]

FileSettings ==
    [source |-> "file", name |-> "Zero API", operator |-> "Mr Ntando Ofc",
     version |-> "2.1.0", hasHeader |-> TRUE]

\* A settings.json whose apiSettings object names no operator and which has
\* no version key.
SparseSettings ==
    [source |-> "file", name |-> "", operator |-> "", version |-> "", hasHeader |-> TRUE]

SettingsChoices(fl) == {FileSettings, SparseSettings, FallbackSettings(fl)}

InfoPath(fl) == IF fl = "api" THEN <<"/", "i", "n", "f", "o">> ELSE <<"/", "d", "o", "c", "s">>
HealthPath == <<"/", "h", "e", "a", "l", "t", "h">>
StatsPath == <<"/", "s", "t", "a", "t", "s">>
StatusPath == <<"/", "s", "t", "a", "t", "u", "s">>
DocsPage == <<"/", "d", "o", "c", "s">>
PlaygroundPage == <<"/", "p", "l", "a", "y", "g", "r", "o", "u", "n", "d">>
SettingsJson == <<"/", "s", "e", "t", "t", "i", "n", "g", "s", ".", "j", "s", "o", "n">>
RootPage == <<"/">>

(***************************************************************************)
(* Route modules: what require(filePath) yields for a file of the folder.  *)
(* "" stands for an absent (or empty) metadata key.  prog is the handler   *)
(* as a sequence of steps:                                                 *)
(*   "json"         res.json(data), unconditionally                        *)
(*   "json_unsent"  if (!res.headersSent) res.json(data)                   *)
(*   "await"        the handler awaits an operation of unknown duration    *)
(*   "throw"        throw new Error(err)                                   *)
(* and the end of prog is the handler's promise resolving.  echo = TRUE    *)
(* makes the handler emit a value that depends on the request.             *)
(***************************************************************************)
HelloPath == <<"/", "e", "x", "a", "m", "p", "l", "e", "/", "h", "e", "l", "l", "o">>
GoodbyePath == <<"/", "e", "x", "a", "m", "p", "l", "e", "/", "g", "o", "o", "d", "b", "y", "e">>
QueryTail == <<"?", "n", "=", "1">>
WorkPath == <<"/", "w">>

HelloData == JObj([message |-> JStr("Hello, world!")])
GoodbyeData == JObj([message |-> JStr("Goodbye, world!")])

Module(file, name, path, method, category, prog) ==
    [file |-> file, ext |-> ".js", throws |-> FALSE,
     meta |-> "object", handler |-> "function",
     name |-> name, path |-> path, method |-> method, category |-> category,
     description |-> "", author |-> "",
     prog |-> prog, data |-> HelloData, echo |-> FALSE, err |-> "boom"]

\* api/example/hello.js and api/example/goodbye.js as shipped.
Hello ==
    [Module("api/example/hello.js", "Hello API", HelloPath, "GET", "Example", <<"json">>)
        EXCEPT !.description = "A simple hello API endpoint", !.author = "Mr Ntando Ofc"]
Goodbye ==
    [Module("api/example/goodbye.js", "Goodbye API", GoodbyePath, "GET", "Example", <<"json">>)
        EXCEPT !.description = "A simple goodbye API endpoint", !.author = "Mr Ntando ofc",
               !.data = GoodbyeData]

\* Valid modules with other metadata and other handler shapes.
HelloQuery == Module("api/hello2.js", "Hello Query", HelloPath \o QueryTail, "get", "", <<"json">>)
HelloHead == Module("api/head.js", "Hello Head", HelloPath, "HEAD", "Example", <<"json">>)
HelloOptions == Module("api/opts.js", "Hello Options", HelloPath, "OPTIONS", "Meta", <<"json">>)
Echo == [Module("api/echo.js", "Echo", WorkPath, "POST", "Tools", <<"json">>) EXCEPT !.echo = TRUE]
SlowHello == Module("api/slow.js", "Slow Hello", WorkPath, "", "Tools", <<"await", "json">>)
SlowGuarded == Module("api/guard.js", "Guarded", WorkPath, "", "", <<"await", "json_unsent">>)
Thrower == Module("api/throw.js", "Thrower", WorkPath, "GET", "Tools", <<"throw">>)
Thrower2 == [Thrower EXCEPT !.file = "api/throw2.js", !.err = "ECONNREFUSED 10.0.0.7:5432"]
SlowThrower == Module("api/slowthrow.js", "Slow Thrower", WorkPath, "GET", "", <<"await", "throw">>)
Silent == Module("api/silent.js", "Silent", WorkPath, "GET", "Tools", <<"await">>)
RespondThenThrow ==
    Module("api/late.js", "Late Failure", WorkPath, "GET", "Tools", <<"json", "await", "throw">>)
\* Modules whose declared path is the path of an introspection endpoint,
\* or holds a trailing '?' or two '?'.
StatsModule == Module("api/stats.js", "My Stats", StatsPath, "GET", "Tools", <<"json">>)
HelloTrailing == Module("api/hello3.js", "Hello Trailing", HelloPath \o <<"?">>, "GET", "", <<"json">>)
HelloTwoQueries ==
    Module("api/hello4.js", "Hello Two", HelloPath \o QueryTail \o <<"?", "m", "=", "2">>,
           "get", "Example", <<"json">>)

\* Files that fail to load, and a file loadModules does not look at.
ImportThrows == [Hello EXCEPT !.file = "api/bad/syntax.js", !.throws = TRUE]
NoMeta == [Hello EXCEPT !.file = "api/bad/nometa.js", !.meta = "missing"]
MetaNotObject == [Hello EXCEPT !.file = "api/bad/metastr.js", !.meta = "string"]
NoHandler == [Hello EXCEPT !.file = "api/bad/nohandler.js", !.handler = "missing"]
HandlerNotFunction == [Hello EXCEPT !.file = "api/bad/handlerstr.js", !.handler = "string"]
NoPath == [Hello EXCEPT !.file = "api/bad/nopath.js", !.path = <<>>]
NoName == [Hello EXCEPT !.file = "api/bad/noname.js", !.name = ""]
BadMethod == [Hello EXCEPT !.file = "api/bad/method.js", !.method = "FETCH"]
Readme == [Hello EXCEPT !.file = "api/README.md", !.ext = ".md"]

(***************************************************************************)
(* Module Loader.                                                          *)
(***************************************************************************)
validMethods == {"get", "post", "put", "delete", "patch", "head", "options"}

\* A faulty variant: the method is not validated.
ValidationError_SkipsMethodCheck(fl, m) ==
    IF m.throws THEN "Unexpected token"
    ELSE IF m.meta # "object" THEN "Missing or invalid meta object"
    ELSE IF m.handler # "function" THEN "Missing or invalid onStart function"
    ELSE IF m.path = <<>> \/ m.name = "" THEN "Missing required meta.path or meta.name"
    ELSE ""

\* The message of the error the try block throws for module m before it
\* registers anything, or "" when m passes validation.
ValidationError(fl, m) ==
    IF m.throws THEN "Unexpected token"
    ELSE IF m.meta # "object"
    THEN IF fl = "api" THEN "Missing or invalid meta object"
         ELSE "Missing or invalid config object (Ladybug modules require config)"
    ELSE IF m.handler # "function"
    THEN IF fl = "api" THEN "Missing or invalid onStart function"
         ELSE "Missing or invalid execute function (Ladybug modules require execute)"
    ELSE IF m.path = <<>> \/ m.name = ""
    THEN IF fl = "api" THEN "Missing required meta.path or meta.name"
         ELSE "Missing required config.endpoint or config.name"
    ELSE IF ToLowerCase(OrElse(m.method, "get")) \notin validMethods
    THEN "Invalid HTTP method: " \o ToLowerCase(OrElse(m.method, "get"))
    ELSE ""

\* A faulty variant: the query string stays in the registered path.
BasePath_KeepsQuery(m) == m.path

BasePath(m) == Split(m.path, "?")[1]
RoutePath(fl, m) == Prefix(fl) \o BasePath(m)
RouteMethod(m) == ToLowerCase(OrElse(m.method, "get"))

\* The layer app[method](routePath, wrapper) adds to the router stack.
\* mod is the position in dir of the file whose handler the wrapper calls.
ModuleLayer(fl, m, pos) ==
    [kind |-> "module", method |-> RouteMethod(m), path |-> RoutePath(fl, m), mod |-> pos]

\* The display path: routePath, plus '?' and the second piece of the
\* declared path when the declared path contains a '?'.
DisplayPath(fl, m) ==
    RoutePath(fl, m) \o
        (IF Includes(m.path, "?") THEN <<"?">> \o Split(m.path, "?")[2] ELSE <<>>)

\* The entry apiModules.push stores.
RegistryEntry(fl, st, m) ==
    [name |-> m.name,
     description |-> OrElse(m.description, "No description provided"),
     category |-> OrElse(m.category, DefaultCategory(fl)),
     path |-> DisplayPath(fl, m),
     author |-> IF fl = "api" THEN OrElse(m.author, "Unknown")
                ELSE OrElse(m.author, OrElse(st.operator, "AjiroDesu")),
     method |-> OrElse(m.method, "GET"),
     version |-> "1.0.0", tags |-> <<>>, deprecated |-> FALSE, rateLimit |-> "null"]

LoadError(m, msg) == [file |-> m.file, error |-> msg, timestamp |-> Timestamp]

\* One iteration of readdirSync(dir).forEach: the file at position
\* scanned + 1 is skipped, registered, or recorded as a LoadError.
LoadFile ==
    /\ phase \in {"loading", "reloading"}
    /\ scanned < Len(dir)
    /\ LET pos == scanned + 1
           m == dir[pos]
           msg == ValidationError(flavor, m)
       IN /\ scanned' = pos
          /\ IF m.ext # ".js"
             THEN UNCHANGED <<stack, apiModules, totalRoutes, loadErrors>>
             ELSE IF msg = ""
             THEN /\ stack' = Append(stack, ModuleLayer(flavor, m, pos))
                  /\ apiModules' = Append(apiModules, RegistryEntry(flavor, settings, m))
                  /\ totalRoutes' = totalRoutes + 1
                  /\ UNCHANGED loadErrors
             ELSE /\ loadErrors' = Append(loadErrors, LoadError(m, msg))
                  /\ UNCHANGED <<stack, apiModules, totalRoutes>>
    /\ UNCHANGED <<flavor, settings, dir, phase, run, prevRun, req>>

\* Layers the top-level script registers: /settings.json before the load,
\* the introspection routes, the root pages and the 404 handler after it.
Layer(kind, path) == [kind |-> kind, method |-> "get", path |-> path, mod |-> 0]

EarlyLayers == <<Layer("settingsfile", SettingsJson)>>

BuiltinLayers(fl) ==
    (IF fl = "api"
     THEN <<Layer("info", Prefix(fl) \o InfoPath(fl)),
            Layer("health", Prefix(fl) \o HealthPath),
            Layer("stats", Prefix(fl) \o StatsPath)>>
     ELSE <<Layer("info", Prefix(fl) \o InfoPath(fl)),
            Layer("status", Prefix(fl) \o StatusPath),
            Layer("health", Prefix(fl) \o HealthPath),
            Layer("stats", Prefix(fl) \o StatsPath)>>)
    \o <<Layer("page", RootPage), Layer("page", DocsPage), Layer("page", PlaygroundPage),
         [kind |-> "notfound", method |-> "*", path |-> <<>>, mod |-> 0]>>

\* loadModules has returned: the rest of the script runs and app.listen
\* starts accepting connections.
Listen ==
    /\ phase = "loading"
    /\ scanned = Len(dir)
    /\ phase' = "listening"
    /\ stack' = stack \o BuiltinLayers(flavor)
    /\ UNCHANGED <<flavor, settings, dir, scanned, apiModules, totalRoutes,
                   loadErrors, run, prevRun, req>>

(***************************************************************************)
(* Response Envelope Middleware.                                           *)
(***************************************************************************)
\* data.status || 'success'
StatusOrSuccess(data) ==
    IF data.t = "object" /\ "status" \in DOMAIN data.f /\ Truthy(data.f["status"])
    THEN data.f["status"]
    ELSE JStr("success")

\* The fields the wrapper writes before it spreads data over them.
EnvelopeDefaults(fl, st, data) ==
    IF fl = "api"
    THEN [status |-> StatusOrSuccess(data),
          operator |-> JStr(OrElse(st.operator, "Ladybug APIs")),
          timestamp |-> JStr(Timestamp),
          version |-> JStr(OrElse(st.version, "1.0.0"))]
    ELSE [status |-> StatusOrSuccess(data),
          developer |-> JStr(OrElse(st.operator, "AjiroDesu")),
          framework |-> JStr("Ladybug API Framework"),
          version |-> JStr(OrElse(st.version, "Ladybug bot")),
          timestamp |-> JStr(Timestamp),
          ladybug |-> JStr("bug")]

\* A faulty variant: the spread comes first, so the envelope's fields override the
\* handler's.
Envelope_DefaultsWin(fl, st, data) ==
    IF Truthy(data) /\ TypeOf(data) = "object"
    THEN JObj(Merge(SpreadFields(data), EnvelopeDefaults(fl, st, data)))
    ELSE data

\* The value the wrapped res.json hands to the original res.json.
Envelope(fl, st, data) ==
    IF Truthy(data) /\ TypeOf(data) = "object"
    THEN JObj(Merge(EnvelopeDefaults(fl, st, data), SpreadFields(data)))
    ELSE data

\* JSON.stringify as the client parses it back: object keys whose value is
\* undefined are dropped, undefined array elements become null.
RECURSIVE Serialize(_)
Serialize(v) ==
    IF v.t = "object"
    THEN JObj([k \in {x \in DOMAIN v.f : v.f[x].t # "undefined"} |-> Serialize(v.f[k])])
    ELSE IF v.t = "array"
    THEN JArr([i \in 1..Len(v.a) |->
                 IF v.a[i].t = "undefined" THEN JNull ELSE Serialize(v.a[i])])
    ELSE v

\* The response object.  arg is what the committing res.json call was given,
\* body what the client receives, by who committed the response, lateWrites
\* the number of res.json calls made after the headers were sent.
NoResponse ==
    [headersSent |-> FALSE, statusCode |-> 200, arg |-> JUndefined,
     body |-> JUndefined, by |-> "nobody", lateWrites |-> 0]

\* res.status(code).json(data) on a response whose headers are not sent.
ResJson(fl, st, res, code, data, by) ==
    [res EXCEPT !.headersSent = TRUE, !.statusCode = code, !.arg = data,
                !.body = Serialize(Envelope(fl, st, data)), !.by = by]

\* res.status(code).sendFile(page)
ResSendFile(res, code, page) ==
    [res EXCEPT !.headersSent = TRUE, !.statusCode = code,
                !.body = JFile(page), !.by = "static"]

(***************************************************************************)
(* Route dispatch wrapper and handlers.                                    *)
(***************************************************************************)
\* The handler runs from step pc until it awaits, throws or returns.
\* A res.json call on a response whose headers are sent makes Express throw
\* ERR_HTTP_HEADERS_SENT inside the handler.
RECURSIVE RunHandler(_, _, _, _, _, _)
RunHandler(fl, st, m, data, res, pc) ==
    IF pc > Len(m.prog)
    THEN [res |-> res, pc |-> pc, out |-> "resolved", err |-> ""]
    ELSE LET op == m.prog[pc]
         IN CASE op = "await" ->
                   [res |-> res, pc |-> pc + 1, out |-> "suspended", err |-> ""]
              [] op = "throw" ->
                   [res |-> res, pc |-> pc, out |-> "rejected", err |-> m.err]
              [] op = "json" ->
                   IF res.headersSent
                   THEN [res |-> [res EXCEPT !.lateWrites = @ + 1], pc |-> pc,
                         out |-> "rejected", err |-> "ERR_HTTP_HEADERS_SENT"]
                   ELSE RunHandler(fl, st, m, data,
                                   ResJson(fl, st, res, res.statusCode, data, "handler"),
                                   pc + 1)
              [] op = "json_unsent" ->
                   IF res.headersSent
                   THEN RunHandler(fl, st, m, data, res, pc + 1)
                   ELSE RunHandler(fl, st, m, data,
                                   ResJson(fl, st, res, res.statusCode, data, "handler"),
                                   pc + 1)

TimeoutBody(fl) ==
    IF fl = "api"
    THEN JObj([status |-> JStr("error"), message |-> JStr("Request timeout"),
               code |-> JStr("TIMEOUT")])
    ELSE JObj([status |-> JStr("error"),
               message |-> JStr("Request timeout - Ladybug took too long to respond"),
               code |-> JStr("LADYBUG_TIMEOUT"), ladybug |-> JStr("Timeout!")])

HandlerErrorBody(fl) ==
    IF fl = "api"
    THEN JObj([status |-> JStr("error"), message |-> JStr("Internal server error"),
               code |-> JStr("INTERNAL_ERROR")])
    ELSE JObj([status |-> JStr("error"), message |-> JStr("Internal Ladybug error"),
               code |-> JStr("LADYBUG_ERROR"), ladybug |-> JStr("Oops! Bug detected!")])

\* A faulty variant: the catch block answers without looking at headersSent.
Catch_Unguarded(fl, st, res, err) ==
    ResJson(fl, st, res, 500, HandlerErrorBody(fl), "catch")

\* A faulty variant: the catch block sends error.message to the client.
Catch_LeaksMessage(fl, st, res, err) ==
    IF ~res.headersSent
    THEN ResJson(fl, st, res, 500,
                 JObj(Merge(HandlerErrorBody(fl).f, [message |-> JStr(err)])), "catch")
    ELSE res

\* The catch block of the wrapper: the message goes to console.error only.
Catch(fl, st, res, err) ==
    IF ~res.headersSent THEN ResJson(fl, st, res, 500, HandlerErrorBody(fl), "catch")
    ELSE res

\* What follows `await module.onStart(...)` once the handler has run to
\* outcome r: clearTimeout on resolution, the catch block on rejection.
\* The timer is one of "none", "armed", "cleared", "fired".
AfterHandler(fl, st, rq, r) ==
    [rq EXCEPT !.hpc = r.pc, !.hstate = r.out,
               !.err = IF r.out = "rejected" THEN r.err ELSE @,
               !.timer = IF r.out = "resolved" /\ @ = "armed" THEN "cleared" ELSE @,
               !.res = IF r.out = "rejected" THEN Catch(fl, st, r.res, r.err) ELSE r.res]

IdleReq ==
    [active |-> FALSE, method |-> "", url |-> <<>>, layer |-> 0, mod |-> 0,
     hpc |-> 0, hstate |-> "none", timer |-> "none", err |-> "", data |-> JUndefined,
     res |-> NoResponse]

(***************************************************************************)
(* HTTP server: middleware chain and router.                               *)
(* Requests are well-formed (their bodies parse) and name no file of the   *)
(* web folder, so express.json, express.urlencoded and express.static      *)
(* pass them on.  Routed paths are literal lower-case paths.               *)
(***************************************************************************)
ReqMethods == {"get", "post", "head", "options"}

MissPath == <<"/", "d", "o", "e", "s", "/", "n", "o", "t", "/", "e", "x", "i", "s", "t">>
OtherPage == <<"/", "a", "b", "o", "u", "t">>

\* URLs of the life-cycle specification and of the load specification.
ReqUrls(fl) ==
    {Prefix(fl) \o p : p \in {HelloPath, HelloPath \o QueryTail, WorkPath,
                              InfoPath(fl), StatsPath, MissPath, <<>>}}
    \cup {DocsPage, OtherPage}

IntrospectionUrls(fl) ==
    {Prefix(fl) \o p : p \in {InfoPath(fl), StatsPath, HealthPath, StatusPath}}

\* Values a request-dependent handler passes to res.json.
JsonInputs ==
    {JObj([status |-> JStr("success"), foo |-> JNum(1)]),
     JObj([status |-> JStr("error"), code |-> JStr("E42")]),
     JObj([status |-> JStr(""), operator |-> JStr("me"), developer |-> JNull]),
     JObj([message |-> JStr("hi"), version |-> JUndefined, timestamp |-> JNum(7)]),
     JArr(<<JNum(1), JNum(2)>>), JArr(<<>>),
     JStr("ok"), JStr(""), JNum(42), JNum(0), JBool("true"), JBool("false"), JNull}

\* req.path: the URL up to its query string.
PathOf(url) == Split(url, "?")[1]

\* Express Route: a HEAD request is served by a GET route that has no HEAD
\* handler of its own; app.use without a path matches every request.
HandlesMethod(routeMethod, reqMethod) ==
    \/ routeMethod = reqMethod
    \/ reqMethod = "head" /\ routeMethod = "get"

Matches(layer, method, path) ==
    \/ layer.kind = "notfound"
    \/ layer.kind # "notfound" /\ layer.path = path /\ HandlesMethod(layer.method, method)

\* The first layer of the stack that matches: the one Express runs.
Dispatch(stk, method, url) ==
    LET path == PathOf(url)
    IN CHOOSE i \in 1..Len(stk) :
           /\ Matches(stk[i], method, path)
           /\ \A j \in 1..(i - 1) : ~Matches(stk[j], method, path)

\* A faulty variant: the test is startsWith(prefix), without the slash.
UnderPrefix_NoSlash(fl, url) == StartsWith(url, Prefix(fl))

UnderPrefix(fl, url) == StartsWith(url, Prefix(fl) \o <<"/">>)

Arrives(method, url) ==
    /\ phase = "listening"
    /\ ~req.active

NewReq(method, url) == [IdleReq EXCEPT !.active = TRUE, !.method = method, !.url = url]

\* app.use(cors(...)): the cors middleware ends every OPTIONS request with
\* an empty 204 (preflightContinue is off); no later layer sees it.
CorsPreflight(method, url) ==
    /\ Arrives(method, url)
    /\ method = "options"
    /\ req' = [NewReq(method, url) EXCEPT
                  !.res = [NoResponse EXCEPT !.headersSent = TRUE, !.statusCode = 204,
                                             !.by = "cors"]]
    /\ UNCHANGED <<flavor, settings, dir, scanned, phase, stack, apiModules,
                   totalRoutes, loadErrors, run, prevRun>>

\* A request reaches a module's route: the wrapper arms the 30 s timer and
\* calls the handler, which runs until it first awaits or settles.
RouteRequest(method, url) ==
    /\ Arrives(method, url)
    /\ method # "options"
    /\ LET i == Dispatch(stack, method, url)
           m == dir[stack[i].mod]
       IN /\ stack[i].kind = "module"
          /\ \E data \in (IF m.echo THEN JsonInputs ELSE {m.data}) :
               LET rq == [NewReq(method, url) EXCEPT !.layer = i, !.mod = stack[i].mod,
                                                     !.timer = "armed", !.data = data]
               IN req' = AfterHandler(flavor, settings, rq,
                             RunHandler(flavor, settings, m, data, NoResponse, 1))
    /\ UNCHANGED <<flavor, settings, dir, scanned, phase, stack, apiModules,
                   totalRoutes, loadErrors, run, prevRun>>

\* The operation the handler awaited completes: the handler runs on.
HandlerResume ==
    /\ req.active
    /\ req.hstate = "suspended"
    /\ req' = AfterHandler(flavor, settings, req,
                  RunHandler(flavor, settings, dir[req.mod], req.data, req.res, req.hpc))
    /\ UNCHANGED <<flavor, settings, dir, scanned, phase, stack, apiModules,
                   totalRoutes, loadErrors, run, prevRun>>

\* A faulty variant: the timeout also cancels the handler.
TimerFire_AbortsHandler ==
    /\ req.active
    /\ req.timer = "armed"
    /\ req.hstate \in {"suspended", "rejected"}
    /\ req' = [req EXCEPT
                  !.timer = "fired",
                  !.hstate = "rejected",
                  !.res = IF ~req.res.headersSent
                          THEN ResJson(flavor, settings, req.res, 408,
                                       TimeoutBody(flavor), "timeout")
                          ELSE @]
    /\ UNCHANGED <<flavor, settings, dir, scanned, phase, stack, apiModules,
                   totalRoutes, loadErrors, run, prevRun>>

\* The setTimeout callback: it runs only while no JavaScript is running,
\* that is while the handler is suspended or after it has rejected (the
\* catch block does not clear the timer).
TimerFire ==
    /\ req.active
    /\ req.timer = "armed"
    /\ req.hstate \in {"suspended", "rejected"}
    /\ req' = [req EXCEPT
                  !.timer = "fired",
                  !.res = IF ~req.res.headersSent
                          THEN ResJson(flavor, settings, req.res, 408,
                                       TimeoutBody(flavor), "timeout")
                          ELSE @]
    /\ UNCHANGED <<flavor, settings, dir, scanned, phase, stack, apiModules,
                   totalRoutes, loadErrors, run, prevRun>>

\* The model stops following a request whose handler is no longer running.
Finish ==
    /\ req.active
    /\ req.hstate # "suspended"
    /\ req' = IdleReq
    /\ UNCHANGED <<flavor, settings, dir, scanned, phase, stack, apiModules,
                   totalRoutes, loadErrors, run, prevRun>>

(***************************************************************************)
(* Introspection endpoints, root pages, 404 and 500 handlers.              *)
(***************************************************************************)
\* A faulty variant: a new group is opened for every module.
CategoryKeys_NoDedup(mods) == [i \in 1..Len(mods) |-> mods[i].category]

\* The keys of the categories object in insertion order: each category in
\* the order of its first module.
RECURSIVE CategoryKeys(_)
CategoryKeys(mods) ==
    IF mods = <<>> THEN <<>>
    ELSE LET prev == CategoryKeys(SubSeq(mods, 1, Len(mods) - 1))
             c == mods[Len(mods)].category
         IN IF \E i \in 1..Len(prev) : prev[i] = c THEN prev ELSE Append(prev, c)

\* One element of a category's items array.
Item(fl, e) ==
    JObj([name |-> JStr(e.name), description |-> JStr(e.description),
          path |-> JChars(e.path), author |-> JStr(e.author),
          method |-> JStr(e.method), version |-> JStr(e.version)])

\* categories[c] after the forEach: count is incremented once per module
\* of the category, items holds one element per such module.
CategoryGroup(fl, mods, c) ==
    LET own == SelectSeq(mods, LAMBDA e : e.category = c)
    IN JObj([name |-> JStr(c),
             count |-> JNum(Cardinality({i \in 1..Len(mods) : mods[i].category = c})),
             items |-> JArr([i \in 1..Len(own) |-> Item(fl, own[i])])])

InfoSummary(mods, errs) ==
    JObj([totalEndpoints |-> JNum(Len(mods)),
          totalCategories |-> JNum(Len(CategoryKeys(mods))),
          loadErrors |-> JNum(Len(errs)),
          serverUptime |-> JEnv("uptime")])

\* GET /api/info and GET /ladybug/docs.
InfoBody(fl, st, mods, errs) ==
    LET keys == CategoryKeys(mods)
        groups == JArr([i \in 1..Len(keys) |-> CategoryGroup(fl, mods, keys[i])])
    IN IF fl = "api"
       THEN JObj([categories |-> groups, summary |-> InfoSummary(mods, errs)])
       ELSE JObj([framework |-> JOpt(st.name), version |-> JOpt(st.version),
                  developer |-> JOpt(st.operator), status |-> JStr("online"),
                  categories |-> groups, summary |-> InfoSummary(mods, errs),
                  links |-> JArr(<<>>), notifications |-> JArr(<<>>),
                  ladybug |-> JStr("Powered by Ladybug Framework")])

\* /ladybug/docs reads settings.header.status: a TypeError when the settings
\* object has no header.
InfoThrows(fl, st) == fl = "ladybug" /\ ~st.hasHeader

\* acc[module.method] = (acc[module.method] || 0) + 1 over the registry.
MethodHistogram(mods) ==
    [k \in {mods[i].method : i \in 1..Len(mods)} |->
        JNum(Cardinality({i \in 1..Len(mods) : mods[i].method = k}))]

\* GET <prefix>/stats.
StatsBody(fl, st, mods, errs, total) ==
    LET common == [totalRoutes |-> JNum(total),
                   loadErrors |-> JNum(Len(errs)),
                   categories |-> JNum(
                       Cardinality({mods[i].category : i \in 1..Len(mods)})),
                   methods |-> JObj(MethodHistogram(mods)),
                   uptime |-> JEnv("uptime"), nodeVersion |-> JStr("v18")]
    IN IF fl = "api" THEN JObj(common)
       ELSE JObj(Merge(common, [framework |-> JOpt(st.name),
                                developer |-> JOpt(st.operator),
                                ladybug |-> JStr("Statistics powered by Ladybug")]))

\* GET <prefix>/health.
HealthBody(fl, st) ==
    IF fl = "api"
    THEN JObj([status |-> JStr("healthy"), uptime |-> JEnv("uptime"),
               memory |-> JStr("memoryUsage"), timestamp |-> JStr(Timestamp),
               version |-> JStr(OrElse(st.version, "1.0.0"))])
    ELSE JObj([status |-> JStr("healthy"),
               message |-> JStr("Ladybug APIs are buzzing smoothly!"),
               uptime |-> JEnv("uptime"), memory |-> JStr("memoryUsage"),
               timestamp |-> JStr(Timestamp), version |-> JOpt(st.version)])

\* GET /ladybug/status.
StatusBody(st, total) ==
    JObj([status |-> JStr("online"), framework |-> JOpt(st.name),
          version |-> JOpt(st.version), developer |-> JOpt(st.operator),
          uptime |-> JEnv("uptime"), memory |-> JStr("memoryUsage"),
          totalEndpoints |-> JNum(total), timestamp |-> JStr(Timestamp),
          ladybug |-> JStr("All systems operational!")])

NotFoundBody(fl) ==
    IF fl = "api"
    THEN JObj([status |-> JStr("error"), message |-> JStr("API endpoint not found"),
               code |-> JStr("NOT_FOUND"),
               suggestion |-> JStr("Visit /api/info for available endpoints")])
    ELSE JObj([status |-> JStr("error"), message |-> JStr("Ladybug endpoint not found"),
               code |-> JStr("LADYBUG_NOT_FOUND"),
               suggestion |-> JStr("Visit /ladybug/docs for available endpoints"),
               ladybug |-> JStr("This endpoint seems to have flown away!")])

\* The body of the 500 error handler for a URL under the prefix.
ServerErrorBody(fl) ==
    IF fl = "api"
    THEN JObj([status |-> JStr("error"), message |-> JStr("Internal server error"),
               code |-> JStr("INTERNAL_ERROR")])
    ELSE JObj([status |-> JStr("error"), message |-> JStr("Internal Ladybug error"),
               code |-> JStr("LADYBUG_INTERNAL_ERROR"),
               ladybug |-> JStr("Oops! A bug in the system!")])

BuiltinKinds == {"info", "health", "stats", "status"}

\* A request reaches an introspection endpoint.  An exception thrown by the
\* endpoint goes to the 500 error handler.
BuiltinRequest(method, url) ==
    /\ Arrives(method, url)
    /\ method # "options"
    /\ LET kind == stack[Dispatch(stack, method, url)].kind
           body == CASE kind = "info" -> InfoBody(flavor, settings, apiModules, loadErrors)
                     [] kind = "stats" ->
                          StatsBody(flavor, settings, apiModules, loadErrors, totalRoutes)
                     [] kind = "health" -> HealthBody(flavor, settings)
                     [] OTHER -> StatusBody(settings, totalRoutes)
       IN /\ kind \in BuiltinKinds
          /\ req' = [NewReq(method, url) EXCEPT
                        !.layer = Dispatch(stack, method, url),
                        !.res = IF kind = "info" /\ InfoThrows(flavor, settings)
                                THEN ResJson(flavor, settings, NoResponse, 500,
                                             ServerErrorBody(flavor), "errorware")
                                ELSE ResJson(flavor, settings, NoResponse, 200,
                                             body, "builtin")]
    /\ UNCHANGED <<flavor, settings, dir, scanned, phase, stack, apiModules,
                   totalRoutes, loadErrors, run, prevRun>>

\* GET /settings.json, /, /docs, /playground: res.sendFile.
PageRequest(method, url) ==
    /\ Arrives(method, url)
    /\ method # "options"
    /\ stack[Dispatch(stack, method, url)].kind \in {"page", "settingsfile"}
    /\ req' = [NewReq(method, url) EXCEPT
                  !.layer = Dispatch(stack, method, url),
                  !.res = ResSendFile(NoResponse, 200, "page.html")]
    /\ UNCHANGED <<flavor, settings, dir, scanned, phase, stack, apiModules,
                   totalRoutes, loadErrors, run, prevRun>>

\* A faulty variant: the 404 handler records the miss in the error list.
NotFound_RecordsError(method, url) ==
    /\ Arrives(method, url)
    /\ method # "options"
    /\ stack[Dispatch(stack, method, url)].kind = "notfound"
    /\ req' = [NewReq(method, url) EXCEPT
                  !.layer = Dispatch(stack, method, url),
                  !.res = IF UnderPrefix(flavor, url)
                          THEN ResJson(flavor, settings, NoResponse, 404,
                                       NotFoundBody(flavor), "notfound")
                          ELSE ResSendFile(NoResponse, 404, "404.html")]
    /\ loadErrors' = Append(loadErrors, [file |-> "", error |-> "not found",
                                         timestamp |-> Timestamp])
    /\ UNCHANGED <<flavor, settings, dir, scanned, phase, stack, apiModules,
                   totalRoutes, run, prevRun>>

\* The 404 handler: no earlier layer matched.
NotFound(method, url) ==
    /\ Arrives(method, url)
    /\ method # "options"
    /\ stack[Dispatch(stack, method, url)].kind = "notfound"
    /\ req' = [NewReq(method, url) EXCEPT
                  !.layer = Dispatch(stack, method, url),
                  !.res = IF UnderPrefix(flavor, url)
                          THEN ResJson(flavor, settings, NoResponse, 404,
                                       NotFoundBody(flavor), "notfound")
                          ELSE ResSendFile(NoResponse, 404, "404.html")]
    /\ UNCHANGED <<flavor, settings, dir, scanned, phase, stack, apiModules,
                   totalRoutes, loadErrors, run, prevRun>>

(***************************************************************************)
(* Process life cycle.                                                     *)
(***************************************************************************)
\* The folders a scan can meet: up to n distinct files of pool, in any
\* listing order.
Folders(pool, n) ==
    {d \in UNION {[1..k -> pool] : k \in 0..n} :
        \A i, j \in 1..Len(d) : i # j => d[i].file # d[j].file}

\* What a run has loaded, without the timing fields.
Loaded ==
    [registry |-> apiModules, counter |-> totalRoutes,
     errors |-> [i \in 1..Len(loadErrors) |->
                    [file |-> loadErrors[i].file, error |-> loadErrors[i].error]],
     handlers |-> {<<stack[i].method, stack[i].path, stack[i].mod>> :
                      i \in {j \in 1..Len(stack) : stack[j].kind = "module"}}]

NoRun == [registry |-> <<>>, counter |-> -1, errors |-> <<>>, handlers |-> {}]

\* The state of a process when loadModules is about to be called.
Boot(fl, st, d, r, prev) ==
    /\ flavor = fl
    /\ settings = st
    /\ dir = d
    /\ scanned = 0
    /\ phase = "loading"
    /\ stack = EarlyLayers
    /\ apiModules = <<>>
    /\ totalRoutes = 0
    /\ loadErrors = <<>>
    /\ run = r
    /\ prevRun = prev
    /\ req = IdleReq

\* SIGTERM or SIGINT: process.exit(0); the operator starts the server again
\* over the same folder and settings.
Restart ==
    /\ phase = "listening"
    /\ run < MaxRuns
    /\ flavor' = flavor
    /\ settings' = settings
    /\ dir' = dir
    /\ scanned' = 0
    /\ phase' = "loading"
    /\ stack' = EarlyLayers
    /\ apiModules' = <<>>
    /\ totalRoutes' = 0
    /\ loadErrors' = <<>>
    /\ run' = run + 1
    /\ prevRun' = Loaded
    /\ req' = IdleReq

\* loadModules(apiFolder) is called again in the running process: the scan
\* starts over, and neither the registry, the counter, the error list nor
\* the router is reset by the function.
Reload ==
    /\ phase = "listening"
    /\ ~req.active
    /\ run < MaxRuns
    /\ phase' = "reloading"
    /\ scanned' = 0
    /\ run' = run + 1
    /\ prevRun' = Loaded
    /\ UNCHANGED <<flavor, settings, dir, stack, apiModules, totalRoutes,
                   loadErrors, req>>

\* The second call returns; the top-level script is not run again.
ReloadReturn ==
    /\ phase = "reloading"
    /\ scanned = Len(dir)
    /\ phase' = "listening"
    /\ UNCHANGED <<flavor, settings, dir, scanned, stack, apiModules,
                   totalRoutes, loadErrors, run, prevRun, req>>

\* The life-cycle specification: handlers of every shape.
MainPool ==
    {Hello, HelloQuery, HelloHead, HelloOptions, Echo, SlowHello,
     SlowGuarded, Thrower, Thrower2, SlowThrower, Silent, RespondThenThrow,
     StatsModule, NoName}

Init ==
    \E fl \in Flavors : \E st \in SettingsChoices(fl) : \E d \in Folders(MainPool, MaxFiles) :
        Boot(fl, st, d, 1, NoRun)

\* A request arrives and runs through the middleware chain to its handler.
Serve(method, url) ==
    \/ CorsPreflight(method, url)
    \/ RouteRequest(method, url)
    \/ BuiltinRequest(method, url)
    \/ PageRequest(method, url)
    \/ NotFound(method, url)

Requests ==
    /\ phase = "listening"
    /\ ~req.active
    /\ \E method \in ReqMethods : \E url \in ReqUrls(flavor) : Serve(method, url)

Next ==
    \/ LoadFile
    \/ Listen
    \/ Requests
    \/ HandlerResume
    \/ TimerFire
    \/ Finish

Spec == Init /\ [][Next]_vars

\* The load specification: files of every kind the validation tells apart,
\* and the introspection endpoints that report on the load.
LoadPool ==
    {Hello, Goodbye, HelloQuery, HelloTrailing, HelloTwoQueries, Echo, SlowHello,
     ImportThrows, NoMeta, MetaNotObject, NoHandler, HandlerNotFunction, NoPath,
     NoName, BadMethod, Readme}

InitLoad ==
    \E fl \in Flavors : \E st \in SettingsChoices(fl) : \E d \in Folders(LoadPool, MaxScan) :
        Boot(fl, st, d, 1, NoRun)

Introspect ==
    /\ phase = "listening"
    /\ ~req.active
    /\ \E method \in {"get", "head"} : \E url \in IntrospectionUrls(flavor) :
          BuiltinRequest(method, url)

NextLoad ==
    \/ LoadFile
    \/ Listen
    \/ Introspect
    \/ Finish

SpecLoad == InitLoad /\ [][NextLoad]_vars

\* The restart specification: the server is stopped and started again over
\* an unchanged folder.
RestartPool == {Hello, HelloQuery, SlowHello, NoName, Readme}

InitRestart ==
    \E fl \in Flavors : \E st \in SettingsChoices(fl) :
        \E d \in Folders(RestartPool, MaxFiles) : Boot(fl, st, d, 1, NoRun)

NextRestart ==
    \/ LoadFile
    \/ Listen
    \/ Requests
    \/ HandlerResume
    \/ TimerFire
    \/ Finish
    \/ Restart
    \/ Reload
    \/ ReloadReturn

SpecRestart == InitRestart /\ [][NextRestart]_vars

(***************************************************************************)
(* Properties.                                                             *)
(***************************************************************************)
\* A module as the specification calls it valid, stated on the file alone.
IsJs(m) == m.ext = ".js"
ValidModule(m) ==
    /\ IsJs(m) /\ ~m.throws /\ m.meta = "object" /\ m.handler = "function"
    /\ m.path # <<>> /\ m.name # ""
    /\ m.method \in {"", "GET", "get", "POST", "HEAD", "OPTIONS"}
InvalidModule(m) == IsJs(m) /\ ~ValidModule(m)

\* The query-free part of a declared path and the served method, stated on
\* the file alone.
DeclaredBase(m) == SubSeq(m.path, 1, IndexOf(m.path, "?") - 1)
ServedMethod(m) ==
    CASE m.method \in {"", "GET", "get"} -> "get"
      [] m.method = "POST" -> "post"
      [] m.method = "HEAD" -> "head"
      [] OTHER -> "options"

\* The request in flight asks for module i: its method, prefix + its
\* declared path.
AsksFor(i) ==
    /\ req.active
    /\ ValidModule(dir[i])
    /\ req.method = ServedMethod(dir[i])
    /\ req.url = Prefix(flavor) \o dir[i].path

\* The declared {method, path} pairs differ pairwise, an absent method
\* counting as GET and letter case not counting.
DeclaredPairsDistinct ==
    \A i, j \in 1..Len(dir) :
        (i # j /\ ValidModule(dir[i]) /\ ValidModule(dir[j]))
            => <<ServedMethod(dir[i]), dir[i].path>> # <<ServedMethod(dir[j]), dir[j].path>>

NotShadowed(i) ==
    \A j \in 1..(i - 1) :
        ValidModule(dir[j]) =>
            ~(/\ DeclaredBase(dir[j]) = DeclaredBase(dir[i])
              /\ \/ ServedMethod(dir[j]) = ServedMethod(dir[i])
                 \/ ServedMethod(dir[j]) = "get" /\ ServedMethod(dir[i]) = "head")

CountErrorsFor(file) == Cardinality({k \in 1..Len(loadErrors) : loadErrors[k].file = file})
ScannedValid == {p \in 1..scanned : ValidModule(dir[p])}
ScannedInvalid == {p \in 1..scanned : InvalidModule(dir[p])}
ModuleLayers == {k \in 1..Len(stack) : stack[k].kind = "module"}

\* C2: every scanned file that fails validation or throws on import has
\* exactly one LoadError {file, error, timestamp}, no live handler and no
\* registry entry; the counter counts only the valid files; and the scan
\* goes on to the end of the folder, loading every valid file.
C2_InvalidModuleIsOneLoadError ==
    /\ \A p \in ScannedInvalid :
          /\ CountErrorsFor(dir[p].file) = 1
          /\ \A k \in ModuleLayers : stack[k].mod # p
          /\ \A k \in 1..Len(apiModules) : apiModules[k].name # dir[p].name
                                           \/ \E q \in ScannedValid : dir[q].name = dir[p].name
    /\ \A k \in 1..Len(loadErrors) :
          /\ DOMAIN loadErrors[k] = {"file", "error", "timestamp"}
          /\ loadErrors[k].error # ""
    /\ Len(loadErrors) = Cardinality(ScannedInvalid)
    /\ totalRoutes = Cardinality(ScannedValid)
    /\ Len(apiModules) = Cardinality(ScannedValid)
    /\ {stack[k].mod : k \in ModuleLayers} = ScannedValid
    /\ phase = "listening" => scanned = Len(dir)

C2_Witness ==
    /\ phase = "listening" /\ Len(dir) = 2
    /\ dir[1] = BadMethod /\ dir[2] = Goodbye
    /\ Len(loadErrors) = 1 /\ totalRoutes = 1

\* The responses that went through res.json.
JsonResponders == {"handler", "timeout", "catch", "builtin", "notfound", "errorware"}
EnvelopeKeys(fl) ==
    IF fl = "api" THEN {"status", "operator", "version", "timestamp"}
    ELSE {"status", "developer", "version", "timestamp"}

\* C3: when res.json is given a key-value object, the client's body has
\* every field of it that carries a value, unchanged (also status "error"),
\* and has each envelope field the object lacks, as a non-empty string.
C3_HandlerFieldsWin ==
    (req.active /\ req.res.by \in JsonResponders /\ req.res.arg.t = "object")
        => /\ req.res.body.t = "object"
           /\ \A k \in DOMAIN req.res.arg.f :
                 req.res.arg.f[k].t # "undefined"
                    => /\ k \in DOMAIN req.res.body.f
                       /\ req.res.body.f[k] = req.res.arg.f[k]
           /\ \A k \in EnvelopeKeys(flavor) \ DOMAIN req.res.arg.f :
                 /\ k \in DOMAIN req.res.body.f
                 /\ req.res.body.f[k].t = "string"
                 /\ req.res.body.f[k].s # ""

C3_Witness ==
    /\ req.active /\ req.res.by = "handler"
    /\ req.res.arg = JObj([status |-> JStr("error"), code |-> JStr("E42")])
    /\ req.res.body.f["status"] = JStr("error")
    /\ settings = SparseSettings
    /\ "version" \in DOMAIN req.res.body.f

\* C4 as stated: a body that is not a key-value object (array, string,
\* number, boolean, null) reaches the client exactly as given.
C4_NonObjectPassesThrough ==
    (req.active /\ req.res.by = "handler" /\ req.res.arg.t # "object")
        => req.res.body = req.res.arg

\* C5: when the timer expires while the handler is still running and no
\* response has been sent, the client gets 408 with status 'error' and the
\* timeout code, and the handler stays where it was, still running.
C5_TimeoutAnswers408 ==
    [][(/\ req.active /\ req.timer = "armed" /\ req'.timer = "fired"
        /\ req.hstate = "suspended" /\ ~req.res.headersSent)
          => /\ req'.res.headersSent
             /\ req'.res.statusCode = 408
             /\ req'.res.body.f["status"] = JStr("error")
             /\ req'.res.body.f["code"] =
                   JStr(IF flavor = "api" THEN "TIMEOUT" ELSE "LADYBUG_TIMEOUT")
             /\ req'.hstate = "suspended"
             /\ req'.hpc = req.hpc]_vars

\* The handler went on after the 408 and resolved.
C5_Witness ==
    /\ req.active /\ req.res.by = "timeout" /\ req.res.statusCode = 408
    /\ req.hstate = "resolved"

\* C6 as stated: once the timeout response is sent, the handler's late
\* completion makes no res.json call on the committed response.
C6_NoWriteAfterTimeout ==
    (req.active /\ req.res.by = "timeout") => req.res.lateWrites = 0

\* The body of the wrapper's 500, as the client sees it.
InternalErrorFields(fl) ==
    IF fl = "api"
    THEN [status |-> JStr("error"), message |-> JStr("Internal server error"),
          code |-> JStr("INTERNAL_ERROR"),
          operator |-> JStr(OrElse(settings.operator, "Ladybug APIs")),
          version |-> JStr(OrElse(settings.version, "1.0.0")),
          timestamp |-> JStr(Timestamp)]
    ELSE [status |-> JStr("error"), message |-> JStr("Internal Ladybug error"),
          code |-> JStr("LADYBUG_ERROR"), ladybug |-> JStr("Oops! Bug detected!"),
          developer |-> JStr(OrElse(settings.operator, "AjiroDesu")),
          framework |-> JStr("Ladybug API Framework"),
          version |-> JStr(OrElse(settings.version, "Ladybug bot")),
          timestamp |-> JStr(Timestamp)]

\* C7: a handler that throws or rejects before any response is sent gets
\* the client a 500 whose body is the fixed internal-error body, the same
\* whatever the error was.
C7_HandlerErrorIsGeneric500 ==
    (req.active /\ req.hstate = "rejected" /\ req.res.lateWrites = 0)
        => /\ req.res.headersSent
           /\ req.res.by \in {"catch", "handler", "timeout"}
           /\ (req.res.by = "catch")
                 => /\ req.res.statusCode = 500
                    /\ req.res.body = JObj(InternalErrorFields(flavor))
           /\ (req.hpc = 1 /\ dir[req.mod].prog[1] = "throw") => req.res.by = "catch"

C7_Witness ==
    /\ req.active /\ req.res.by = "catch"
    /\ req.err = "ECONNREFUSED 10.0.0.7:5432"
    /\ req.res.statusCode = 500

\* The request in flight matches a module route or an introspection route.
MatchesARoute ==
    \E k \in 1..Len(stack) :
        /\ stack[k].kind \in {"module"} \cup BuiltinKinds
        /\ stack[k].path = PathOf(req.url)
        /\ \/ stack[k].method = req.method
           \/ stack[k].method = "get" /\ req.method = "head"

MatchesAPage ==
    \E k \in 1..Len(stack) :
        /\ stack[k].kind \in {"page", "settingsfile"}
        /\ stack[k].path = PathOf(req.url)
        /\ req.method \in {"get", "head"}

UrlUnderPrefix == StartsWith(req.url, Prefix(flavor) \o <<"/">>)

NotFoundJson ==
    /\ req.res.statusCode = 404
    /\ req.res.body.t = "object"
    /\ req.res.body.f["status"] = JStr("error")
    /\ req.res.body.f["code"] = JStr(IF flavor = "api" THEN "NOT_FOUND" ELSE "LADYBUG_NOT_FOUND")
    /\ req.res.body.f["suggestion"] =
          JStr(IF flavor = "api" THEN "Visit /api/info for available endpoints"
               ELSE "Visit /ladybug/docs for available endpoints")

NotFoundPage == req.res.statusCode = 404 /\ req.res.body = JFile("404.html")

\* C8 as stated: every request under the prefix that matches no module
\* route and no introspection route gets the 404 JSON body; every unmatched
\* request outside the prefix gets the static 404 page.
C8_UnmatchedIs404 ==
    (req.active /\ ~MatchesARoute /\ ~MatchesAPage)
        => IF UrlUnderPrefix THEN NotFoundJson ELSE NotFoundPage

\* C8 amended: the same, for every request other than an OPTIONS request
\* (which the CORS middleware answers with an empty 204 before routing).
C8_UnmatchedNonOptionsIs404 ==
    (req.active /\ req.method # "options" /\ ~MatchesARoute /\ ~MatchesAPage)
        => IF UrlUnderPrefix THEN NotFoundJson ELSE NotFoundPage

C8_Witness ==
    /\ req.active /\ req.method = "get"
    /\ req.url = Prefix(flavor) \o MissPath
    /\ NotFoundJson

\* N, M and E of a folder: its valid modules, their distinct categories
\* (no category counting as the default one), its failing files.
ValidFiles == {p \in 1..Len(dir) : ValidModule(dir[p])}
CountN == Cardinality(ValidFiles)
CountM ==
    Cardinality({IF dir[p].category # "" THEN dir[p].category
                 ELSE IF flavor = "api" THEN "Uncategorized" ELSE "General" : p \in ValidFiles})
CountE == Cardinality({p \in 1..Len(dir) : InvalidModule(dir[p])})

RECURSIVE SumOfCounts(_)
SumOfCounts(groups) ==
    IF groups = <<>> THEN 0
    ELSE groups[1].f["count"].n + SumOfCounts(Tail(groups))

AnsweredBy(kind) ==
    /\ req.active
    /\ req.layer > 0
    /\ stack[req.layer].kind = kind
    /\ req.res.by = "builtin"

AtBuiltin ==
    /\ req.active
    /\ req.layer > 0
    /\ stack[req.layer].kind \in BuiltinKinds

\* C11: when the settings file could not be loaded and the hardcoded
\* default settings stand in for it, every introspection endpoint (listing,
\* status, health, stats) answers 200 with its normal body, never an error
\* response.
C11_FallbackSettingsAnswerNormally ==
    (settings.source = "fallback" /\ AtBuiltin)
        => /\ req.res.by = "builtin"
           /\ req.res.statusCode = 200

\* The request in flight has been answered.
Answered == req.active /\ req.res.headersSent

\* C12: the registry, the LoadError list and the counter are written only
\* while loadModules runs, which is over before any request is accepted;
\* no step taken while the server is listening changes any of the three,
\* and no request is in flight before the scan has ended.
C12_RequestsLeaveRegistryAlone ==
    [][/\ phase = "listening"
          => UNCHANGED <<apiModules, loadErrors, totalRoutes>>
       /\ req'.active => (phase' = "listening" /\ scanned' = Len(dir'))]_vars

C12_Witness ==
    /\ Answered
    /\ req.res.by = "catch"
    /\ totalRoutes = 1 /\ Len(apiModules) = 1 /\ Len(loadErrors) = 1

\* The handler of the request in flight has settled.
Settled == req.active /\ req.mod > 0 /\ req.hstate \in {"resolved", "rejected"}

\* C13: once the handler's promise has resolved or rejected, the request's
\* 30-second timer is no longer armed.
C13_TimerCancelledAfterSettle ==
    Settled => req.timer # "armed"

\* C14: the wrapper never writes to a committed response: once a response
\* is sent for a request (by the handler, the timeout or the catch block),
\* no later step of the wrapper replaces it, so at most one of the 408 and
\* the 500 is emitted, and neither after the handler's own response.
C14_WrapperWritesOnce ==
    [][(req.active /\ req'.active /\ req.res.headersSent)
          => /\ req'.res.by = req.res.by
             /\ req'.res.statusCode = req.res.statusCode
             /\ req'.res.body = req.res.body]_vars

C14_Witness ==
    /\ Settled
    /\ req.hstate = "rejected" /\ req.err = "boom"
    /\ req.timer = "fired"
    /\ req.res.by = "timeout" /\ req.res.statusCode = 408

\* C15: a request dispatched to a module route whose handler has settled
\* and whose timer is no longer pending has received a response: the
\* handler's own, the 500 or the 408.
C15_SettledRequestIsAnswered ==
    (Settled /\ req.timer # "armed") => req.res.headersSent

\* The paths of the introspection endpoints of a flavour.
BuiltinPaths(fl) ==
    {BuiltinLayers(fl)[i].path :
        i \in {j \in 1..Len(BuiltinLayers(fl)) : BuiltinLayers(fl)[j].kind \in BuiltinKinds}}

\* C16: a GET to the listing, health, status or stats path under the prefix
\* is answered by the introspection endpoint and never by a module's
\* handler, whatever paths the loaded modules declare.
C16_BuiltinPathsNotShadowed ==
    (req.active /\ req.method = "get" /\ PathOf(req.url) \in BuiltinPaths(flavor))
        => (AtBuiltin /\ req.mod = 0)

\* The valid modules among the files scanned so far, in scan order: the
\* k-th of them is the module behind the k-th registry entry.
LoadedFiles == SelectSeq(SubSeq(dir, 1, scanned), ValidModule)

\* C17: for every valid module the live handler is registered at prefix +
\* the declared path without its query string, and the registry's display
\* path is prefix + the full declared path, whether the declared path has
\* no '?', a trailing '?' or several '?'.
C17_DisplayPathIsDeclaredPath ==
    (run = 1 /\ Len(apiModules) = Len(LoadedFiles))
        => \A k \in 1..Len(apiModules) :
              /\ apiModules[k].path = Prefix(flavor) \o LoadedFiles[k].path
              /\ \E l \in ModuleLayers :
                    /\ dir[stack[l].mod] = LoadedFiles[k]
                    /\ stack[l].path = Prefix(flavor) \o DeclaredBase(LoadedFiles[k])

RECURSIVE SumOfValues(_, _)
SumOfValues(h, keys) ==
    IF keys = {} THEN 0
    ELSE LET k == CHOOSE x \in keys : TRUE
         IN h[k].n + SumOfValues(h, keys \ {k})

\* C18: each key of the stats endpoint's method histogram is an HTTP method
\* and its value the number of registered routes whose handler serves that
\* method, declared in any letter case or left out (GET); the values add up
\* to totalRoutes.
C18_HistogramCountsServedMethods ==
    AnsweredBy("stats")
        => LET h == req.res.body.f["methods"].f
           IN /\ \A k \in DOMAIN h :
                    h[k].n = Cardinality({l \in ModuleLayers :
                                             stack[l].method = ToLowerCase(k)})
              /\ SumOfValues(h, DOMAIN h) = req.res.body.f["totalRoutes"].n

====
